---- MODULE Spec2Model ----
(***************************************************************************)
(* A model of questions.py: a two-stage TF-IDF question answering          *)
(* pipeline (tokenize, compute_idfs, top_files, top_sentences, main).      *)
(*                                                                         *)
(* Representation choices                                                  *)
(*  - A Python str is a sequence of one-character strings.                 *)
(*  - A Python dict is a sequence of <<key, value>> pairs with distinct    *)
(*    keys, in insertion order (dicts iterate in insertion order).  The    *)
(*    dicts whose iteration order cannot be observed (allWords, idfDict,   *)
(*    wordScores) are TLA+ functions.                                      *)
(*  - A value math.log(a / b) is the pair <<a, b>> (a, b > 0): the real    *)
(*    number ln(a/b).  Sums of such values are products of the pairs, and  *)
(*    comparisons are by cross multiplication, so the arithmetic is that   *)
(*    of the reals; floating point rounding is not modelled.               *)
(*  - A quotient a / b of two ints (the density) is the pair <<a, b>>.     *)
(*  - A call returns [err |-> "none", val |-> v], or the name of the       *)
(*    exception it raises in err.                                          *)
(***************************************************************************)
EXTENDS Integers, Sequences, FiniteSets

VARIABLES
    pc,          \* position of the run (or of the called function)
    err,         \* the exception that ended the run, "none" otherwise
    stdout,      \* what has been written to standard output, in order
    argc,        \* len(sys.argv)
    dirList,     \* the corpus directory: <<name, text, readable>> per file
    stdin,       \* the line input() will read, or EOF
    fileIdx,     \* load_files: the directory entries the loop has taken
    files,       \* main: files (load_files' filesDict while loading)
    file_words,  \* main: file_words; top_files' / compute_idfs' argument
    file_idfs,   \* main: file_idfs; top_files' idfs argument
    query,       \* main: query
    filenames,   \* main: filenames, the result of top_files
    sentences,   \* main: sentences; top_sentences' argument
    idfs,        \* main: idfs; top_sentences' idfs argument
    matches,     \* main: matches, the result of top_sentences
    n,           \* the n argument of top_files / top_sentences
    document,    \* tokenize's argument
    wordsList    \* tokenize's result

vars == <<pc, err, stdout, argc, dirList, stdin, fileIdx, files, file_words, file_idfs,
          query, filenames, sentences, idfs, matches, n, document, wordsList>>

----------------------------------------------------------------------------
(* Bounds of the model *)

MaxText == 5     \* characters of a text given to tokenize on its own
MaxLen == 2      \* tokens of a document or sentence given to a ranker
MaxDocs == 2     \* documents or sentences of a mapping given to a ranker
MaxFiles == 2    \* files of the corpus directory in a run of main

(* Program constants *)

FILE_MATCHES == 1
SENTENCE_MATCHES == 1

----------------------------------------------------------------------------
(* Sequences and insertion-ordered dicts *)

Range(s) == {s[i] : i \in 1..Len(s)}

SeqsUpTo(S, k) == UNION {[1..m -> S] : m \in 0..k}

Min(a, b) == IF a <= b THEN a ELSE b

Keys(d) == [i \in 1..Len(d) |-> d[i][1]]

Values(d) == [i \in 1..Len(d) |-> d[i][2]]

HasKey(d, k) == \E i \in 1..Len(d) : d[i][1] = k

Lookup(d, k) == d[CHOOSE i \in 1..Len(d) : d[i][1] = k][2]

\* d[k] = v: an existing key keeps its position, a new key goes last
DictSet(d, k, v) ==
    IF HasKey(d, k)
    THEN [i \in 1..Len(d) |-> IF d[i][1] = k THEN <<k, v>> ELSE d[i]]
    ELSE Append(d, <<k, v>>)

\* s[:k + 1]
PrefixOneMore(s, k) == SubSeq(s, 1, Min(k + 1, Len(s)))

\* s[:k]
Prefix(s, k) == SubSeq(s, 1, Min(k, Len(s)))

\* the number of positions of s holding x
Count(s, x) == Cardinality({i \in 1..Len(s) : s[i] = x})

----------------------------------------------------------------------------
(* Real arithmetic on logarithms and quotients *)

RECURSIVE Pow(_, _)
Pow(b, k) == IF k = 0 THEN 1 ELSE b * Pow(b, k - 1)

LogZero == <<1, 1>>
LogAdd(a, b) == <<a[1] * b[1], a[2] * b[2]>>
LogScale(k, a) == <<Pow(a[1], k), Pow(a[2], k)>>
\* both kinds of pair <<a, b>> compare as a/b does (b > 0)
RatLess(a, b) == a[1] * b[2] < b[1] * a[2]
RatEq(a, b) == a[1] * b[2] = b[1] * a[2]

----------------------------------------------------------------------------
(* Characters.  Texts are written over a small alphabet: three letters, one *)
(* upper-case letter, two characters of string.punctuation, a space and a  *)
(* line break.                                                             *)

Letters == {"i", "t", "s"}
Upper == {"I"}
Punctuation == {"'", "."}
Whitespace == {" ", "\n"}

\* str.lower, one character
LowerChar(c) == IF c = "I" THEN "i" ELSE c

\* str.lower
Lower(s) == [i \in 1..Len(s) |-> LowerChar(s[i])]

\* nltk.corpus.stopwords.words("english"), the entries over the alphabet:
\* i, it, its, it's, is, s, t
StopWords ==
    { <<"i">>, <<"i", "t">>, <<"i", "t", "s">>, <<"i", "t", "'", "s">>,
      <<"i", "s">>, <<"s">>, <<"t">> }

\* The pieces of s between the characters of Sep, empty pieces dropped.
RECURSIVE SplitFrom(_, _, _, _)
SplitFrom(s, i, cur, Sep) ==
    IF i > Len(s)
    THEN IF cur = <<>> THEN <<>> ELSE <<cur>>
    ELSE IF s[i] \in Sep
         THEN (IF cur = <<>> THEN <<>> ELSE <<cur>>) \o SplitFrom(s, i + 1, <<>>, Sep)
         ELSE SplitFrom(s, i + 1, Append(cur, s[i]), Sep)

\* nltk.word_tokenize: the words of a text, in order.  The splitter is
\* NLTK's; it is modelled as splitting at white space, so that a word may
\* still hold punctuation (as NLTK's "n't" or "e.g." do).
word_tokenize(s) == SplitFrom(s, 1, <<>>, Whitespace)

\* word.replace(character, '')
Replace(word, character) == SelectSeq(word, LAMBDA c : c # character)

\* for character in word: if character in string.punctuation: word = ...
\* (the loop runs over the characters of the word as it was on entry)
RECURSIVE StripLoop(_, _, _)
StripLoop(orig, i, word) ==
    IF i > Len(orig) THEN word
    ELSE IF orig[i] \in Punctuation
         THEN StripLoop(orig, i + 1, Replace(word, orig[i]))
         ELSE StripLoop(orig, i + 1, word)

\* TokenizeWord with the stopword test made on the word as the splitter gave
\* it, before its punctuation is removed
TokenizeWordStopFirst(acc, word0) ==
    LET word == StripLoop(word0, 1, word0)
    IN  IF word0 \notin StopWords /\ word # <<>> THEN Append(acc, word) ELSE acc

\* the loop body of tokenize: the list after one word of the splitter
TokenizeWord(acc, word0) ==
    LET word == StripLoop(word0, 1, word0)
    IN  IF word \notin StopWords /\ word # <<>> THEN Append(acc, word) ELSE acc

RECURSIVE TokenizeLoop(_, _, _)
TokenizeLoop(toks, i, acc) ==
    IF i > Len(toks) THEN acc
    ELSE TokenizeLoop(toks, i + 1, TokenizeWord(acc, toks[i]))

tokenize(doc) == TokenizeLoop(word_tokenize(Lower(doc)), 1, <<>>)

----------------------------------------------------------------------------
(* compute_idfs *)

Ok(v) == [err |-> "none", val |-> v]
Raise(e) == [err |-> e, val |-> <<>>]

\* for word in wordsSet: allWords[word] = 1, or += 1 when already there
CountWords(allWords, wordsSet) ==
    [w \in DOMAIN allWords \cup wordsSet |->
        IF w \in wordsSet
        THEN (IF w \in DOMAIN allWords THEN allWords[w] + 1 ELSE 1)
        ELSE allWords[w]]

\* CountDocuments without wordsSet = set(words): every occurrence counts
RECURSIVE CountOccurrences(_, _, _)
CountOccurrences(documents, i, allWords) ==
    IF i > Len(documents) THEN allWords
    ELSE LET words == documents[i][2]
         IN  CountOccurrences(documents, i + 1,
                [w \in DOMAIN allWords \cup Range(words) |->
                    (IF w \in DOMAIN allWords THEN allWords[w] ELSE 0)
                    + Count(words, w)])

\* for words in documents.values(): wordsSet = set(words); ...
RECURSIVE CountDocuments(_, _, _)
CountDocuments(documents, i, allWords) ==
    IF i > Len(documents) THEN allWords
    ELSE CountDocuments(documents, i + 1,
                        CountWords(allWords, Range(documents[i][2])))

\* compute_idfs without the entries of the words found in every document,
\* whose idf is 0
compute_idfsOmitZero(documents) ==
    LET totalDocuments == Len(documents)
        allWords == CountDocuments(documents, 1, <<>>)
    IN  [word \in {w \in DOMAIN allWords : allWords[w] < totalDocuments} |->
            <<totalDocuments, allWords[word]>>]

\* idfDict[word] = math.log(totalDocuments / timesFound)
compute_idfs(documents) ==
    LET totalDocuments == Len(documents)
        allWords == CountDocuments(documents, 1, <<>>)
    IN  [word \in DOMAIN allWords |-> <<totalDocuments, allWords[word]>>]

----------------------------------------------------------------------------
(* list.sort(key=..., reverse=True): a stable sort into descending order,  *)
(* elements whose keys compare equal keeping their order.  The sort is     *)
(* modelled as an insertion sort: each element of the list in turn goes    *)
(* before the first element already placed whose key is less than its own, *)
(* and last when there is none.                                            *)

\* x placed into sorted, `less` being the positions of sorted whose key is
\* less than x's
InsertBefore(sorted, x, less) ==
    LET at == IF less = {} THEN Len(sorted) + 1
              ELSE CHOOSE i \in less : \A j \in less : i <= j
    IN  SubSeq(sorted, 1, at - 1) \o <<x>> \o SubSeq(sorted, at, Len(sorted))

----------------------------------------------------------------------------
(* top_files *)

\* WordScores without the += 1: a query word counts once however often it
\* occurs
RECURSIVE WordScoresOnce(_, _, _, _)
WordScoresOnce(words, i, q, wordScores) ==
    IF i > Len(words) THEN wordScores
    ELSE IF words[i] \in q
         THEN WordScoresOnce(words, i + 1, q,
                [w \in DOMAIN wordScores \cup {words[i]} |-> 1])
         ELSE WordScoresOnce(words, i + 1, q, wordScores)

\* for word in words: if word in query: wordScores[word] = 1, or += 1
RECURSIVE WordScores(_, _, _, _)
WordScores(words, i, q, wordScores) ==
    IF i > Len(words) THEN wordScores
    ELSE IF words[i] \in q
         THEN WordScores(words, i + 1, q,
                [w \in DOMAIN wordScores \cup {words[i]} |->
                    IF w = words[i]
                    THEN (IF w \in DOMAIN wordScores THEN wordScores[w] + 1 ELSE 1)
                    ELSE wordScores[w]])
         ELSE WordScores(words, i + 1, q, wordScores)

\* for word in wordScores: totalScore += wordScores[word] * idfs[word]
RECURSIVE TotalScore(_, _, _)
TotalScore(W, wordScores, idfTable) ==
    IF W = {} THEN LogZero
    ELSE LET word == CHOOSE w \in W : TRUE
         IN  LogAdd(LogScale(wordScores[word], idfTable[word]),
                    TotalScore(W \ {word}, wordScores, idfTable))

\* FileKeyLess as "less or equal": equal scores change places
FileKeyLessOrEqual(a, b) == ~RatLess(b[2], a[2])

\* key=lambda tf: tf[1]
FileKeyLess(a, b) == RatLess(a[2], b[2])

\* the scoring loop: scoresList after the files from position i on, or the
\* KeyError of the first idfs[word] whose word is not a key of idfs
RECURSIVE ScoreFiles(_, _, _, _, _)
ScoreFiles(q, fileDict, idfTable, i, scoresList) ==
    IF i > Len(fileDict) THEN Ok(scoresList)
    ELSE LET wordScores == WordScores(fileDict[i][2], 1, q, <<>>)
         IN  IF \E w \in DOMAIN wordScores : w \notin DOMAIN idfTable
             THEN Raise("KeyError")
             ELSE ScoreFiles(q, fileDict, idfTable, i + 1,
                    Append(scoresList,
                           <<fileDict[i][1],
                             TotalScore(DOMAIN wordScores, wordScores, idfTable)>>))

\* SortScores without reverse = True: ascending, stable
SortScoresAscending(scoresList) ==
    LET sorted[i \in 0..Len(scoresList)] ==
            IF i = 0 THEN <<>>
            ELSE InsertBefore(sorted[i - 1], scoresList[i],
                    {j \in 1..Len(sorted[i - 1]) :
                        FileKeyLess(scoresList[i], sorted[i - 1][j])})
    IN  sorted[Len(scoresList)]

\* scoresList.sort(key=lambda tf: tf[1], reverse = True)
SortScores(scoresList) ==
    LET sorted[i \in 0..Len(scoresList)] ==
            IF i = 0 THEN <<>>
            ELSE InsertBefore(sorted[i - 1], scoresList[i],
                    {j \in 1..Len(sorted[i - 1]) :
                        FileKeyLess(sorted[i - 1][j], scoresList[i])})
    IN  sorted[Len(scoresList)]

top_files(q, fileDict, idfTable, k) ==
    LET scored == ScoreFiles(q, fileDict, idfTable, 1, <<>>)
    IN  IF scored.err # "none" THEN scored
        ELSE Ok(Prefix(Keys(SortScores(scored.val)), k))

----------------------------------------------------------------------------
(* top_sentences *)

\* for word in words: if word in query: wordsFromQuery += 1
WordsFromQuery(words, q) == Cardinality({i \in 1..Len(words) : words[i] \in q})

\* for word in wordsSet: if word in query: score += idfs[word]
RECURSIVE IdfScore(_, _, _)
IdfScore(wordsSet, q, idfTable) ==
    IF wordsSet = {} THEN LogZero
    ELSE LET word == CHOOSE w \in wordsSet : TRUE
             rest == IdfScore(wordsSet \ {word}, q, idfTable)
         IN  IF word \in q THEN LogAdd(idfTable[word], rest) ELSE rest

\* SentenceKeyLess on the idf score alone: key=lambda sc: sc[1]
SentenceKeyLessScoreOnly(a, b) == RatLess(a[2], b[2])

\* key=lambda sc: (sc[1], sc[2]): tuples compare by their first components
\* that differ
SentenceKeyLess(a, b) ==
    IF ~RatEq(a[2], b[2]) THEN RatLess(a[2], b[2]) ELSE RatLess(a[3], b[3])

\* the scoring loop: sentenceScores, or the first exception: the KeyError of
\* idfs[word], or the ZeroDivisionError of wordsFromQuery / len(words)
RECURSIVE ScoreSentences(_, _, _, _, _)
ScoreSentences(q, sentDict, idfTable, i, sentenceScores) ==
    IF i > Len(sentDict) THEN Ok(sentenceScores)
    ELSE LET words == sentDict[i][2]
             wordsSet == Range(words)
         IN  IF \E w \in wordsSet : w \in q /\ w \notin DOMAIN idfTable
             THEN Raise("KeyError")
             ELSE IF Len(words) = 0
             THEN Raise("ZeroDivisionError")
             ELSE ScoreSentences(q, sentDict, idfTable, i + 1,
                    Append(sentenceScores,
                           <<sentDict[i][1],
                             IdfScore(wordsSet, q, idfTable),
                             <<WordsFromQuery(words, q), Len(words)>> >>))

\* sentenceScores.sort(key=lambda sc: (sc[1], sc[2]), reverse = True)
SortSentenceScores(sentenceScores) ==
    LET sorted[i \in 0..Len(sentenceScores)] ==
            IF i = 0 THEN <<>>
            ELSE InsertBefore(sorted[i - 1], sentenceScores[i],
                    {j \in 1..Len(sorted[i - 1]) :
                        SentenceKeyLess(sorted[i - 1][j], sentenceScores[i])})
    IN  sorted[Len(sentenceScores)]

top_sentences(q, sentDict, idfTable, k) ==
    LET scored == ScoreSentences(q, sentDict, idfTable, 1, <<>>)
    IN  IF scored.err # "none" THEN scored
        ELSE Ok(Prefix(Keys(SortSentenceScores(scored.val)), k))

----------------------------------------------------------------------------
(* main: the sentences of the top files *)

\* str.split("\n"): the pieces between line breaks, empty ones kept
RECURSIVE SplitLines(_, _, _)
SplitLines(s, i, cur) ==
    IF i > Len(s) THEN <<cur>>
    ELSE IF s[i] = "\n" THEN <<cur>> \o SplitLines(s, i + 1, <<>>)
         ELSE SplitLines(s, i + 1, Append(cur, s[i]))

\* s without the spaces at its ends
RECURSIVE Strip(_)
Strip(s) ==
    IF s = <<>> THEN s
    ELSE IF Head(s) = " " THEN Strip(Tail(s))
    ELSE IF s[Len(s)] = " " THEN Strip(SubSeq(s, 1, Len(s) - 1))
    ELSE s

\* nltk.sent_tokenize: the sentences of a passage, in order.  The splitter
\* is NLTK's; it is modelled as ending a sentence at a full stop that a
\* space or the end of the passage follows.
RECURSIVE SentencesFrom(_, _, _)
SentencesFrom(s, i, cur) ==
    IF i > Len(s)
    THEN IF Strip(cur) = <<>> THEN <<>> ELSE <<Strip(cur)>>
    ELSE IF s[i] = "." /\ (i = Len(s) \/ s[i + 1] = " ")
         THEN <<Strip(Append(cur, s[i]))>> \o SentencesFrom(s, i + 1, <<>>)
         ELSE SentencesFrom(s, i + 1, Append(cur, s[i]))

sent_tokenize(passage) == SentencesFrom(passage, 1, <<>>)

\* AddSentences without the test `if tokens`
RECURSIVE AddSentencesUnfiltered(_, _, _)
AddSentencesUnfiltered(sentDict, sents, i) ==
    IF i > Len(sents) THEN sentDict
    ELSE AddSentencesUnfiltered(DictSet(sentDict, sents[i], tokenize(sents[i])),
                                sents, i + 1)

\* for sentence in nltk.sent_tokenize(passage):
\*     tokens = tokenize(sentence); if tokens: sentences[sentence] = tokens
RECURSIVE AddSentences(_, _, _)
AddSentences(sentDict, sents, i) ==
    IF i > Len(sents) THEN sentDict
    ELSE LET tokens == tokenize(sents[i])
         IN  AddSentences(IF tokens # <<>> THEN DictSet(sentDict, sents[i], tokens)
                          ELSE sentDict,
                          sents, i + 1)

\* for passage in files[filename].split("\n"): ...
RECURSIVE AddPassages(_, _, _)
AddPassages(sentDict, passages, i) ==
    IF i > Len(passages) THEN sentDict
    ELSE AddPassages(AddSentences(sentDict, sent_tokenize(passages[i]), 1),
                     passages, i + 1)

\* for filename in filenames: ...
RECURSIVE AddFiles(_, _, _, _)
AddFiles(sentDict, names, i, fileDict) ==
    IF i > Len(names) THEN sentDict
    ELSE AddFiles(AddPassages(sentDict, SplitLines(Lookup(fileDict, names[i]), 1, <<>>), 1),
                  names, i + 1, fileDict)

----------------------------------------------------------------------------
(* main: the runs.  The corpus directory holds up to MaxFiles files (the   *)
(* i-th is named i), each with one of six texts and readable or not; the   *)
(* input is one of four lines, or is at its end.                           *)

\* "sit it."
TextA == <<"s", "i", "t", " ", "i", "t", ".">>
\* "it is. tis sit."
TextB == <<"i", "t", " ", "i", "s", ".", " ", "t", "i", "s", " ", "s", "i", "t", ".">>
\* "ti.\n'. sit ti ti."
TextC == <<"t", "i", ".", "\n", "'", ".", " ", "s", "i", "t", " ", "t", "i", " ",
           "t", "i", ".">>
\* ""
TextD == <<>>
\* "tI. ti.\nti."
TextE == <<"t", "I", ".", " ", "t", "i", ".", "\n", "t", "i", ".">>
\* "it's. ."
TextF == <<"i", "t", "'", "s", ".", " ", ".">>

FileTexts == {TextA, TextB, TextC, TextD, TextE, TextF}

\* "sit", "ss sit", "ti tis", "It is"
QueryLines ==
    { <<"s", "i", "t">>,
      <<"s", "s", " ", "s", "i", "t">>,
      <<"t", "i", " ", "t", "i", "s">>,
      <<"I", "t", " ", "i", "s">> }

\* the variables a specification does not use
MainUnused ==
    /\ argc = 2 /\ dirList = <<>> /\ stdin = <<>> /\ fileIdx = 0 /\ files = <<>>
    /\ stdout = <<>> /\ err = "none"
TokenizeUnused == document = <<>> /\ wordsList = <<>>
FilesUnused == file_words = <<>> /\ file_idfs = <<>> /\ filenames = <<>>
SentencesUnused == sentences = <<>> /\ idfs = <<>> /\ matches = <<>>

InitMain ==
    /\ pc = "start"
    /\ err = "none"
    /\ stdout = <<>>
    /\ argc \in 1..3
    /\ \E m \in 0..MaxFiles :
         \E f \in [1..m -> FileTexts \X BOOLEAN] :
            dirList = [i \in 1..m |-> <<i, f[i][1], f[i][2]>>]
    /\ stdin \in {[eof |-> TRUE, line |-> <<>>]}
                 \cup {[eof |-> FALSE, line |-> l] : l \in QueryLines}
    /\ fileIdx = 0
    /\ files = <<>>
    /\ query = {} /\ n = 1
    /\ FilesUnused /\ SentencesUnused /\ TokenizeUnused

\* lines 16-17, and the entry into load_files (line 56)
CheckArguments ==
    /\ pc = "start"
    /\ IF argc # 2
       THEN pc' = "exit" /\ err' = "SystemExit"
       ELSE pc' = "load_files" /\ err' = err
    /\ UNCHANGED <<stdout, argc, dirList, stdin, fileIdx, files, file_words,
                   file_idfs, query, filenames, sentences, idfs, matches, n,
                   document, wordsList>>

\* LoadFile with a file that cannot be read skipped
LoadFileSkipUnreadable ==
    /\ pc = "load_files"
    /\ fileIdx < Len(dirList)
    /\ LET file == dirList[fileIdx + 1]
       IN  IF file[3]
           THEN /\ files' = DictSet(files, file[1], file[2])
                /\ stdout' = Append(stdout, <<"read successfully", file[1]>>)
           ELSE UNCHANGED <<files, stdout>>
    /\ fileIdx' = fileIdx + 1
    /\ UNCHANGED <<pc, err, argc, dirList, stdin, file_words, file_idfs, query,
                   filenames, sentences, idfs, matches, n, document, wordsList>>

\* lines 59-63, one file: open and read it, which raises OSError (or
\* UnicodeDecodeError) when it cannot be read, then print the progress line
LoadFile ==
    /\ pc = "load_files"
    /\ fileIdx < Len(dirList)
    /\ LET file == dirList[fileIdx + 1]
       IN  IF file[3]
           THEN /\ files' = DictSet(files, file[1], file[2])
                /\ stdout' = Append(stdout, <<"read successfully", file[1]>>)
                /\ fileIdx' = fileIdx + 1
                /\ UNCHANGED <<pc, err>>
           ELSE /\ pc' = "error" /\ err' = "OSError"
                /\ UNCHANGED <<files, stdout, fileIdx>>
    /\ UNCHANGED <<argc, dirList, stdin, file_words, file_idfs, query,
                   filenames, sentences, idfs, matches, n, document, wordsList>>

\* lines 65 and 21-25: load_files returns; file_words and file_idfs
TokenizeFiles ==
    /\ pc = "load_files"
    /\ fileIdx = Len(dirList)
    /\ file_words' = [i \in 1..Len(files) |-> <<files[i][1], tokenize(files[i][2])>>]
    /\ file_idfs' = compute_idfs(file_words')
    /\ pc' = "input"
    /\ UNCHANGED <<err, stdout, argc, dirList, stdin, fileIdx, files, query,
                   filenames, sentences, idfs, matches, n, document, wordsList>>

\* line 28: input() writes the prompt to standard output and reads a line,
\* raising EOFError at the end of the input
ReadQuery ==
    /\ pc = "input"
    /\ stdout' = Append(stdout, <<"prompt", 0>>)
    /\ IF stdin.eof
       THEN pc' = "error" /\ err' = "EOFError" /\ query' = query
       ELSE pc' = "top_files_main" /\ err' = err
            /\ query' = Range(tokenize(stdin.line))
    /\ UNCHANGED <<argc, dirList, stdin, fileIdx, files, file_words, file_idfs,
                   filenames, sentences, idfs, matches, n, document, wordsList>>

\* line 31
RankFiles ==
    /\ pc = "top_files_main"
    /\ LET r == top_files(query, file_words, file_idfs, FILE_MATCHES)
       IN  IF r.err # "none"
           THEN pc' = "error" /\ err' = r.err /\ filenames' = filenames
           ELSE pc' = "sentences" /\ err' = err /\ filenames' = r.val
    /\ n' = FILE_MATCHES
    /\ UNCHANGED <<stdout, argc, dirList, stdin, fileIdx, files, file_words,
                   file_idfs, query, sentences, idfs, matches, document, wordsList>>

\* lines 34-43: the sentences of the top files, and their idfs
ExtractSentences ==
    /\ pc = "sentences"
    /\ sentences' = AddFiles(<<>>, filenames, 1, files)
    /\ idfs' = compute_idfs(sentences')
    /\ pc' = "top_sentences_main"
    /\ UNCHANGED <<err, stdout, argc, dirList, stdin, fileIdx, files, file_words,
                   file_idfs, query, filenames, matches, n, document, wordsList>>

\* line 46
RankSentences ==
    /\ pc = "top_sentences_main"
    /\ LET r == top_sentences(query, sentences, idfs, SENTENCE_MATCHES)
       IN  IF r.err # "none"
           THEN pc' = "error" /\ err' = r.err /\ matches' = matches
           ELSE pc' = "print" /\ err' = err /\ matches' = r.val
    /\ n' = SENTENCE_MATCHES
    /\ UNCHANGED <<stdout, argc, dirList, stdin, fileIdx, files, file_words,
                   file_idfs, query, filenames, sentences, idfs, document,
                   wordsList>>

\* the result lines of standard output
Printed == SelectSeq(stdout, LAMBDA line : line[1] = "result")

\* lines 47-48, one match
PrintMatch ==
    /\ pc = "print"
    /\ Len(Printed) < Len(matches)
    /\ stdout' = Append(stdout, <<"result", matches[Len(Printed) + 1]>>)
    /\ UNCHANGED <<pc, err, argc, dirList, stdin, fileIdx, files, file_words,
                   file_idfs, query, filenames, sentences, idfs, matches, n,
                   document, wordsList>>

\* main returns
Finish ==
    /\ pc = "print"
    /\ Len(Printed) = Len(matches)
    /\ pc' = "done"
    /\ UNCHANGED <<err, stdout, argc, dirList, stdin, fileIdx, files, file_words,
                   file_idfs, query, filenames, sentences, idfs, matches, n,
                   document, wordsList>>

Next ==
    \/ CheckArguments
    \/ LoadFile
    \/ TokenizeFiles
    \/ ReadQuery
    \/ RankFiles
    \/ ExtractSentences
    \/ RankSentences
    \/ PrintMatch
    \/ Finish

Init == InitMain

Spec == Init /\ [][Next]_vars

----------------------------------------------------------------------------
(* Inputs of the functions called on their own.  A word is one of three:   *)
(* "a" and "b" may be query words, "c" never is.  A mapping is a dict      *)
(* whose i-th key is i.                                                    *)

Vocabulary == {"a", "b", "c"}
Queries == SUBSET {"a", "b"}

WordLists(lo, hi) == UNION {[1..m -> Vocabulary] : m \in lo..hi}

\* The word lists given to a ranker are listed up to the order of their
\* words ("a" before "b" before "c"): the rankers' loops over a word list
\* only count.  compute_idfs is given the lists in every order.
Rank(w) == IF w = "a" THEN 1 ELSE IF w = "b" THEN 2 ELSE 3
OrderedWordLists(lo, hi) ==
    {f \in WordLists(lo, hi) : \A i, j \in 1..Len(f) : i < j => Rank(f[i]) <= Rank(f[j])}

\* d is a mapping of at most `most` entries whose word lists are in Lists
IsMapping(d, Lists, most) ==
    \E m \in 0..most : \E f \in [1..m -> Lists] : d = [i \in 1..m |-> <<i, f[i]>>]

\* idfs tables given to a ranker on its own: ln 1, ln 2 or ln 4 for "a",
\* ln 2 for "b" and "c"
IdfTables == { [w \in Vocabulary |-> IF w = "a" THEN v ELSE <<2, 1>>]
               : v \in {<<1, 1>>, <<2, 1>>, <<4, 1>>} }

----------------------------------------------------------------------------
(* tokenize, called on every text of up to MaxText characters *)

TokenizeChars == Letters \cup Upper \cup Punctuation \cup {" "}

InitTokenize ==
    /\ pc = "tokenize"
    /\ document \in SeqsUpTo(TokenizeChars, MaxText)
    /\ wordsList = <<>>
    /\ query = {} /\ n = 1
    /\ MainUnused /\ FilesUnused /\ SentencesUnused

TokenizeCall ==
    /\ pc = "tokenize"
    /\ wordsList' = tokenize(document)
    /\ pc' = "tokenize_ret"
    /\ UNCHANGED <<err, stdout, argc, dirList, stdin, fileIdx, files, file_words, file_idfs,
                   query, filenames, sentences, idfs, matches, n, document>>

NextTokenize == TokenizeCall

SpecTokenize == InitTokenize /\ [][NextTokenize]_vars

----------------------------------------------------------------------------
(* compute_idfs, called on every mapping of up to MaxDocs documents of up  *)
(* to MaxLen words                                                         *)

InitIdfs ==
    /\ pc = "compute_idfs"
    /\ IsMapping(file_words, WordLists(0, MaxLen), MaxDocs)
    /\ file_idfs = <<>> /\ filenames = <<>>
    /\ query = {} /\ n = 1
    /\ MainUnused /\ TokenizeUnused /\ SentencesUnused

ComputeIdfsCall ==
    /\ pc = "compute_idfs"
    /\ file_idfs' = compute_idfs(file_words)
    /\ pc' = "compute_idfs_ret"
    /\ UNCHANGED <<err, stdout, argc, dirList, stdin, fileIdx, files, file_words,
                   query, filenames, sentences, idfs, matches, n, document,
                   wordsList>>

NextIdfs == ComputeIdfsCall

SpecIdfs == InitIdfs /\ [][NextIdfs]_vars

----------------------------------------------------------------------------
(* top_files and top_sentences, each called on every query, mapping, idfs  *)
(* table and n; the sentences given to top_sentences have a word at least  *)

InitTopFiles ==
    /\ pc = "top_files"
    /\ query \in Queries
    /\ IsMapping(file_words, OrderedWordLists(0, MaxLen), MaxDocs)
    /\ file_idfs \in IdfTables
    /\ n \in 1..(MaxDocs + 1)
    /\ filenames = <<>>
    /\ MainUnused /\ TokenizeUnused /\ SentencesUnused

TopFilesCall ==
    /\ pc = "top_files"
    /\ LET r == top_files(query, file_words, file_idfs, n)
       IN  filenames' = r.val /\ err' = r.err
    /\ pc' = "top_files_ret"
    /\ UNCHANGED <<stdout, argc, dirList, stdin, fileIdx, files, file_words, file_idfs,
                   query, sentences, idfs, matches, n, document, wordsList>>

InitTopSentences ==
    /\ pc = "top_sentences"
    /\ query \in Queries
    /\ IsMapping(sentences, OrderedWordLists(1, MaxLen), MaxDocs)
    /\ idfs \in IdfTables
    /\ n \in 1..(MaxDocs + 1)
    /\ matches = <<>>
    /\ MainUnused /\ TokenizeUnused /\ FilesUnused

TopSentencesCall ==
    /\ pc = "top_sentences"
    /\ LET r == top_sentences(query, sentences, idfs, n)
       IN  matches' = r.val /\ err' = r.err
    /\ pc' = "top_sentences_ret"
    /\ UNCHANGED <<stdout, argc, dirList, stdin, fileIdx, files, file_words, file_idfs,
                   query, filenames, sentences, idfs, n, document, wordsList>>

NextTopFiles == TopFilesCall

SpecTopFiles == InitTopFiles /\ [][NextTopFiles]_vars

NextTopSentences == TopSentencesCall

SpecTopSentences == InitTopSentences /\ [][NextTopSentences]_vars

\* either ranker
InitRankers == InitTopFiles \/ InitTopSentences

NextRankers == TopFilesCall \/ TopSentencesCall

SpecRankers == InitRankers /\ [][NextRankers]_vars

----------------------------------------------------------------------------
(* Two documents: compute_idfs over them, then top_files with n = 1 *)

MaxPairLen == 4   \* words of each of the two documents

InitTwoDocs ==
    /\ pc = "pair_idfs"
    /\ query \in Queries
    /\ \E f \in [1..2 -> OrderedWordLists(0, MaxPairLen)] :
           file_words = [i \in 1..2 |-> <<i, f[i]>>]
    /\ file_idfs = <<>> /\ filenames = <<>>
    /\ n = 1
    /\ MainUnused /\ TokenizeUnused /\ SentencesUnused

PairIdfs ==
    /\ pc = "pair_idfs"
    /\ file_idfs' = compute_idfs(file_words)
    /\ pc' = "pair_top_files"
    /\ UNCHANGED <<err, stdout, argc, dirList, stdin, fileIdx, files, file_words,
                   query, filenames, sentences, idfs, matches, n, document,
                   wordsList>>

PairTopFiles ==
    /\ pc = "pair_top_files"
    /\ LET r == top_files(query, file_words, file_idfs, n)
       IN  filenames' = r.val /\ err' = r.err
    /\ pc' = "pair_ret"
    /\ UNCHANGED <<stdout, argc, dirList, stdin, fileIdx, files, file_words, file_idfs,
                   query, sentences, idfs, matches, n, document, wordsList>>

NextTwoDocs == PairIdfs \/ PairTopFiles

SpecTwoDocs == InitTwoDocs /\ [][NextTwoDocs]_vars

----------------------------------------------------------------------------
(* The quantities the properties of the rankers are stated in, written     *)
(* from their definitions over the three words of Vocabulary.              *)

LogSum3(x, y, z) == LogAdd(x, LogAdd(y, z))

\* sum of table[w] over the distinct words w of words that are in q
DistinctIdfSum(words, q, table) ==
    LET term(w) == IF w \in Range(words) /\ w \in q THEN table[w] ELSE LogZero
    IN  LogSum3(term("a"), term("b"), term("c"))

\* (tokens of words, repeats counted, that are in q) / (tokens of words)
QueryDensity(words, q) ==
    <<Cardinality({i \in 1..Len(words) : words[i] \in q}), Len(words)>>

\* sum over the distinct query words w present in words of
\* (occurrences of w in words) * table[w]
TfIdfSum(words, q, table) ==
    LET term(w) == IF w \in Range(words) /\ w \in q
                   THEN LogScale(Count(words, w), table[w]) ELSE LogZero
    IN  LogSum3(term("a"), term("b"), term("c"))

\* key A comes before key B in the result, or A is returned and B is not
RankedAbove(result, A, B) ==
    \/ \E i, j \in 1..Len(result) : i < j /\ result[i] = A /\ result[j] = B
    \/ A \in Range(result) /\ B \notin Range(result)

SentenceScore(A) == DistinctIdfSum(Lookup(sentences, A), query, idfs)
SentenceDensity(A) == QueryDensity(Lookup(sentences, A), query)
FileScore(A) == TfIdfSum(Lookup(file_words, A), query, file_idfs)

----------------------------------------------------------------------------
(* C1: top_sentences returns the sentences in a two-key descending order:  *)
(* whenever sentence A precedes sentence B in the result, or A is returned *)
(* and B is not, idf_score(A) > idf_score(B), or the idf_scores are equal  *)
(* and density(A) >= density(B).                                           *)
C1_TwoKeyOrder ==
    pc = "top_sentences_ret" =>
        /\ err = "none"
        /\ \A A, B \in Range(Keys(sentences)) :
              RankedAbove(matches, A, B) =>
                  \/ RatLess(SentenceScore(B), SentenceScore(A))
                  \/ /\ RatEq(SentenceScore(A), SentenceScore(B))
                     /\ ~RatLess(SentenceDensity(A), SentenceDensity(B))

\* a sentence of higher idf_score and lower density is ranked first, and
\* only it is returned
C1_Witness ==
    /\ pc = "top_sentences_ret"
    /\ n = 1
    /\ \E A, B \in Range(Keys(sentences)) :
          /\ matches = <<A>>
          /\ A > B
          /\ RatLess(SentenceScore(B), SentenceScore(A))
          /\ RatLess(LogZero, SentenceScore(B))
          /\ RatLess(SentenceDensity(A), SentenceDensity(B))

C4_Truncation ==
    /\ pc = "top_files_ret" =>
          /\ err = "none"
          /\ Len(filenames) = Min(n, Len(file_words))
          /\ Range(filenames) \subseteq Range(Keys(file_words))
          /\ \A i, j \in 1..Len(filenames) : filenames[i] = filenames[j] => i = j
    /\ pc = "top_sentences_ret" =>
          /\ err = "none"
          /\ Len(matches) = Min(n, Len(sentences))
          /\ Range(matches) \subseteq Range(Keys(sentences))
          /\ \A i, j \in 1..Len(matches) : matches[i] = matches[j] => i = j

\* n exceeds the number of sentences, and all of them are returned
C4_Witness ==
    /\ pc = "top_sentences_ret"
    /\ Len(sentences) = 2
    /\ n = 3
    /\ Len(matches) = 2

\* the position of key k in the iteration order of d
PositionIn(d, k) == CHOOSE i \in 1..Len(d) : d[i][1] = k

(* C10: in the result of top_files, documents of equal score keep the      *)
(* relative order they have in the iteration order of the files mapping;   *)
(* when all scores are equal, the result is the first n documents of the   *)
(* mapping in iteration order.                                             *)
C10_StableTies ==
    pc = "top_files_ret" =>
        /\ \A i, j \in 1..Len(filenames) :
              (i < j /\ RatEq(FileScore(filenames[i]), FileScore(filenames[j])))
                  => PositionIn(file_words, filenames[i]) < PositionIn(file_words, filenames[j])
        /\ (\A A, B \in Range(Keys(file_words)) : RatEq(FileScore(A), FileScore(B)))
              => filenames = Prefix(Keys(file_words), n)

\* two documents tie on a score that is not zero and are both returned, in
\* the order of the mapping
C10_Witness ==
    /\ pc = "top_files_ret"
    /\ filenames = <<1, 2>>
    /\ file_words[1][2] # file_words[2][2]
    /\ RatEq(FileScore(1), FileScore(2))
    /\ RatLess(LogZero, FileScore(1))

----------------------------------------------------------------------------
\* the token set of each document
TokenSets(documents) == [i \in 1..Len(documents) |-> Range(documents[i][2])]

\* the table, from the token sets
IdfOfSets(sets) ==
    [w \in UNION Range(sets) |->
        <<Len(sets), Cardinality({i \in 1..Len(sets) : w \in sets[i]})>>]

(* C3: compute_idfs returns a table whose keys are exactly the words that  *)
(* occur in at least one document, the value for w being ln(N / df(w)),    *)
(* df(w) the number of documents whose token set contains w; every value   *)
(* is >= 0, is 0 for a word present in every document and ln(N) for a word *)
(* present in exactly one.  The table is a function of the documents'      *)
(* token sets alone, so token order and repetition do not matter.          *)
C3_IdfTable ==
    pc = "compute_idfs_ret" =>
        LET sets == TokenSets(file_words)
            N == Len(file_words)
        IN  /\ DOMAIN file_idfs = UNION Range(sets)
            /\ file_idfs = IdfOfSets(sets)
            /\ \A w \in DOMAIN file_idfs :
                  LET df == Cardinality({i \in 1..N : w \in sets[i]})
                  IN  /\ 1 <= df /\ df <= N
                      /\ ~RatLess(file_idfs[w], LogZero)
                      /\ df = N => RatEq(file_idfs[w], LogZero)
                      /\ df = 1 => RatEq(file_idfs[w], <<N, 1>>)

\* a word twice in the first document and once, after another word, in the
\* second: ln(2/2); the other word in the second document only: ln(2/1)
C3_Witness ==
    /\ pc = "compute_idfs_ret"
    /\ Len(file_words) = 2
    /\ \E w, v \in DOMAIN file_idfs :
          /\ file_words[1][2] = <<w, w>>
          /\ file_words[2][2] = <<v, w>>
          /\ w = "a" /\ v = "b"
          /\ file_idfs[w] = <<2, 2>>
          /\ file_idfs[v] = <<2, 1>>

----------------------------------------------------------------------------
\* document A holds every query word more than once; B holds no query word
HoldsAllTwice(A) == \A w \in query : Count(Lookup(file_words, A), w) > 1
HoldsNone(B) == \A w \in query : Count(Lookup(file_words, B), w) = 0

(* C5: for every query and every two documents, one holding every query    *)
(* word more than once and the other holding no query word, top_files with *)
(* n = 1 and the idfs of compute_idfs returns exactly the document that    *)
(* holds the query words, whichever of the two positions it has.           *)
C5_AsStated ==
    pc = "pair_ret" =>
        \A A, B \in {1, 2} :
            (A # B /\ HoldsAllTwice(A) /\ HoldsNone(B)) => filenames = <<A>>

(* C5 amended: the same for every query that holds a word at least.  (With *)
(* the empty query each document is both the one that holds every query    *)
(* word and the one that holds none, and the first of the mapping is       *)
(* returned.)                                                              *)
C5_NonEmptyQuery ==
    pc = "pair_ret" =>
        /\ err = "none"
        /\ query # {} =>
              \A A, B \in {1, 2} :
                  (A # B /\ HoldsAllTwice(A) /\ HoldsNone(B)) => filenames = <<A>>

\* both query words twice in the second document, none in the first, which
\* is not empty
C5_Witness ==
    /\ pc = "pair_ret"
    /\ query = {"a", "b"}
    /\ HoldsAllTwice(2) /\ HoldsNone(1)
    /\ file_words[1][2] # <<>>
    /\ filenames = <<2>>

----------------------------------------------------------------------------
\* a word without its punctuation characters; whether it is kept
WithoutPunctuation(word) == SelectSeq(word, LAMBDA c : c \notin Punctuation)

Survives(word) == word # <<>> /\ word \notin StopWords

----------------------------------------------------------------------------
\* the run has ended with an exception or with sys.exit
Aborted == pc \in {"error", "exit"}

\* load_files has read every file of the directory
AllFilesRead ==
    /\ fileIdx = Len(dirList)
    /\ \A i \in 1..Len(dirList) : dirList[i][3]
    /\ Keys(files) = [i \in 1..Len(dirList) |-> dirList[i][1]]

(* C6: a run of main is all-or-nothing with respect to output: either the  *)
(* whole pipeline completes and prints the result sentences, or it aborts  *)
(* with an error before anything has been written to standard output; when *)
(* reading a file fails after others were read, nothing has been printed   *)
(* and no partial corpus is used.                                          *)
C6_AsStated ==
    /\ Aborted => stdout = <<>>
    /\ pc = "done" => Values(Printed) = matches

(* C6 amended: at an abort no result sentence has been printed (the        *)
(* progress lines of the files read so far and the prompt may have been);  *)
(* a run that completes has printed exactly the result sentences; and when *)
(* reading a file fails, nothing has been computed from the files read:    *)
(* anything ranked or printed as a result rests on the whole directory.    *)
C6_NoResultOnAbort ==
    /\ Aborted => Printed = <<>>
    /\ pc = "done" => Values(Printed) = matches
    /\ err = "OSError" =>
          /\ file_words = <<>> /\ file_idfs = <<>> /\ filenames = <<>>
          /\ sentences = <<>> /\ idfs = <<>> /\ matches = <<>>
    /\ (file_words # <<>> \/ Printed # <<>>) => AllFilesRead

\* the second file cannot be read; the first has been, and its progress
\* line is on standard output
C6_Witness ==
    /\ pc = "error"
    /\ err = "OSError"
    /\ fileIdx = 1
    /\ Len(files) = 1
    /\ stdout = <<<<"read successfully", 1>>>>

----------------------------------------------------------------------------
\* the sentences of the selected files, in order
SelectedSentences ==
    LET RECURSIVE OfPassages(_, _)
        OfPassages(ps, i) ==
            IF i > Len(ps) THEN <<>>
            ELSE sent_tokenize(ps[i]) \o OfPassages(ps, i + 1)
        RECURSIVE OfFiles(_)
        OfFiles(i) ==
            IF i > Len(filenames) THEN <<>>
            ELSE OfPassages(SplitLines(Lookup(files, filenames[i]), 1, <<>>), 1)
                 \o OfFiles(i + 1)
    IN  OfFiles(1)

(* C8: in every run of main, every sentence passed to top_sentences has a  *)
(* non-empty token sequence, main dropping each sentence whose             *)
(* tokenization is empty; so len(words) in top_sentences is never zero,    *)
(* also when the selected documents yield no sentence at all: the mapping  *)
(* is then empty and nothing is printed.                                   *)
C8_NoEmptySentence ==
    /\ err # "ZeroDivisionError"
    /\ \A i \in 1..Len(sentences) : Len(sentences[i][2]) > 0
    /\ pc \in {"top_sentences_main", "print", "done"} =>
          /\ \A s \in Range(SelectedSentences) :
                HasKey(sentences, s) <=> tokenize(s) # <<>>
          /\ \A i \in 1..Len(sentences) : sentences[i][1] \in Range(SelectedSentences)
    /\ (pc = "done" /\ sentences = <<>>) => (matches = <<>> /\ Printed = <<>>)

\* a sentence of the selected file has no token and was dropped, another
\* was kept and ranked
C8_Witness ==
    /\ pc = "done"
    /\ matches # <<>>
    /\ \E s \in Range(SelectedSentences) : tokenize(s) = <<>> /\ ~HasKey(sentences, s)

----------------------------------------------------------------------------
\* the words w whose idfs[w] a ranker reads: the query words of the lists
LookedUp(d, q) == {w \in UNION {Range(d[i][2]) : i \in 1..Len(d)} : w \in q}

(* C9: in every run of main no IDF lookup fails: top_files looks up        *)
(* idfs[w] only for words w of some document of the mapping file_idfs was  *)
(* computed over, top_sentences only for words w of some sentence of the   *)
(* mapping idfs was computed over; a query word absent from the table is   *)
(* never looked up.                                                        *)
C9_NoFailedLookup ==
    /\ err # "KeyError"
    /\ pc \in {"top_files_main", "sentences", "top_sentences_main", "print", "done"} =>
          LookedUp(file_words, query) \subseteq DOMAIN file_idfs
    /\ pc \in {"top_sentences_main", "print", "done"} =>
          LookedUp(sentences, query) \subseteq DOMAIN idfs

\* the query holds a word that occurs nowhere in the corpus and a word that
\* does; the run completes with a result
C9_Witness ==
    /\ pc = "done"
    /\ matches # <<>>
    /\ \E w \in query : w \notin DOMAIN file_idfs /\ w \notin DOMAIN idfs
    /\ \E w \in query : w \in DOMAIN file_idfs /\ w \in DOMAIN idfs

====
